---- MODULE Spec2Model ----
(***************************************************************************)
(* A model of api/research: the iterative research orchestrator            *)
(* deep_research (deep_research.py) and the three provider functions it    *)
(* calls (providers.py).  One run of deep_research is one behaviour: the   *)
(* request is fixed in the initial state, the capabilities (query          *)
(* generation, retrieval, extraction, report stream), the progress sink,   *)
(* the cancellation probe and the wall clock are the environment and       *)
(* answer nondeterministically.                                            *)
(*                                                                         *)
(* Text is a sequence of tokens; a token is a string standing for a piece  *)
(* of text that the code never looks into.  The empty text is << >>.       *)
(***************************************************************************)
EXTENDS Integers, Sequences, FiniteSets, TLC

\* ---------------------------------------------------------------- constants

MAX_RESEARCH_TIME == 300
MAX_QUERIES_PER_ITERATION == 5
MAX_TOTAL_QUERIES == 20
MAX_DEPTH == 5
NUM_LEARNINGS == 3

\* ------------------------------------------------------------------- bounds

\* Seconds the wall clock advances in one Tick.
TimeStep == 300
\* Raw chunks the report capability produces at most in one stream.
MaxChunks == 2
\* Longest raw candidate list of the query capability, rich environment.
MaxRawSmall == 3
\* Longest raw candidate list of the query capability, plain environment.
MaxRawBig == 6

\* ------------------------------------------------------------------ helpers

Min(a, b) == IF a < b THEN a ELSE b

Max(a, b) == IF a > b THEN a ELSE b

\* Python's s[:n]: the first n elements, or all but the last -n when n < 0.
PySlice(s, n) ==
  IF n >= 0 THEN SubSeq(s, 1, Min(n, Len(s)))
  ELSE SubSeq(s, 1, Max(0, Len(s) + n))

\* All sequences over S of length at most n.
SeqsUpTo(S, n) == UNION {[1..k -> S] : k \in 0..n}

RECURSIVE JoinReversed(_)
\* Mutant of Join: the chunks are concatenated last to first.
JoinReversed(chunks) ==
  IF chunks = << >> THEN << >>
  ELSE JoinReversed(Tail(chunks)) \o Head(chunks)

RECURSIVE Join(_)
\* ''.join(chunks): the chunks' texts, concatenated in order.
Join(chunks) ==
  IF chunks = << >> THEN << >> ELSE Head(chunks) \o Join(Tail(chunks))

\* ------------------------------------------------------- environment values

\* A candidate of the query capability: a dict whose search string is
\* non-empty ("kw"), a dict whose search string is empty or missing (""), or
\* an item that is no dict at all (BadItem: the JSON held a list of strings).
BadItem == "not-a-dict"

Questions == {"How does authentication work?", "Where are retries done?"}

\* Raw learnings lists the model's JSON answer may hold (before [:num_learnings]).
ExtractResponses == {<< >>, <<"a">>, <<"b", "a", "a", "c">>}

\* The text of the k-th raw chunk of the report stream that has content.
ChunkText(k) == <<ToString(k)>>

\* The environments a run is checked in: what the capabilities and the sink
\* may do there.
\*   candidates  the items the query capability may put in its list
\*   maxraw      the longest raw candidate list
\*   retrieval   what a retrieval may do
\*   faults      capability calls may fail and sink deliveries may raise
\*   chunks      the raw chunks a report stream may produce
\* In "rich" everything may happen, in "fair" nothing fails, in "plain" the
\* candidates are well-formed and no retrieval finds a document.
World(w) ==
  CASE w = "rich" ->
         [candidates |-> {"kw", "", BadItem}, maxraw |-> MaxRawSmall,
          retrieval |-> {"docs", "none", "raise"}, faults |-> TRUE,
          chunks |-> MaxChunks]
    [] w = "fair" ->
         [candidates |-> {"kw"}, maxraw |-> MaxRawSmall,
          retrieval |-> {"docs", "none"}, faults |-> FALSE,
          chunks |-> 1]
    [] OTHER ->
         [candidates |-> {"kw"}, maxraw |-> MaxRawBig,
          retrieval |-> {"none"}, faults |-> FALSE,
          chunks |-> 1]

\* The requests a run is started with: the arguments of deep_research, and
\* the environment (world) the run meets.  on_progress tells whether a
\* progress callback was supplied, check_cancelled whether a probe was.
Requests ==
  [query : {"How does authentication work?"}, breadth : {1, 2}, depth : {1},
   provider : {"openai"}, on_progress : BOOLEAN,
   check_cancelled : BOOLEAN, world : {"rich"}]
  \cup
  [query : {"How does authentication work?"}, breadth : {1}, depth : {2},
   provider : {"openai"}, on_progress : BOOLEAN,
   check_cancelled : BOOLEAN, world : {"rich"}]
  \cup
  [query : {"How does authentication work?"}, breadth : {2}, depth : {2},
   provider : {"openai"}, on_progress : {TRUE},
   check_cancelled : {TRUE}, world : {"fair"}]
  \cup
  [query : {"How does authentication work?"},
   breadth : {-1, 0, 5, 6}, depth : {-1, 0, 5, 6},
   provider : {"openai"}, on_progress : {FALSE},
   check_cancelled : {FALSE}, world : {"plain"}]
  \cup
  [query : Questions, breadth : {1}, depth : {1},
   provider : {"google", "other"}, on_progress : {TRUE},
   check_cancelled : {FALSE}, world : {"rich"}]
  \cup
  [query : {"How does authentication work?"}, breadth : {1}, depth : {3},
   provider : {"openai"}, on_progress : {FALSE},
   check_cancelled : {FALSE}, world : {"fair"}]

\* -------------------------------------------------------------------- state

VARIABLES
  request,              \* the arguments of the call and its environment
  pc,                   \* where deep_research stands; "done": it returned,
                        \* "sink_raised", "item_raised": it raised
  breadth,              \* the parameter breadth (rebound at line 70)
  depth,                \* the parameter depth (rebound at line 71)
  start_time,           \* time.time() at line 74
  now,                  \* the wall clock, seconds
  total_queries,        \* the global query counter
  all_learnings,        \* the cumulative learnings
  iteration,            \* index of the round at hand, range(depth)
  queries,              \* the candidates of the round at hand
  i,                    \* candidates of the round already taken from queries
  iteration_learnings,  \* the round-local buffer
  final_report_chunks,  \* the fragments appended so far
  produced,             \* raw chunks the report stream has produced
  final_report,         \* the report text of the result
  events,               \* what the progress sink has received, in order
  obs                   \* observations of the run, read by no action

vars ==
  <<request, pc, breadth, depth, start_time, now, total_queries,
    all_learnings, iteration, queries, i, iteration_learnings,
    final_report_chunks, produced, final_report, events, obs>>

\* The observations: counters of what the run did, never read by the code.
\*   rounds_executed   rounds that passed the stop checks and called
\*                     generate_research_queries
\*   round_queries     increments of total_queries in the round at hand
\*   rag_calls         calls of rag_instance
\*   extract_calls     calls of process_research_results
\*   report_calls      calls of write_final_report_streaming
\*   discovered        the learnings lists process_research_results
\*                     returned, as <<round, candidate, list>>, in call order
\*   stop              why the round loop ended ("" while it runs)
\*   stop_round        the value of iteration when it ended
\*   inner_cancel      the probe answered true at a per-query check
\*   given             the learnings argument of each generate call
\*   first_empty       round 1 got an empty candidate list
\*   failures          capability calls that failed (raised inside)
\*   calls             capability calls made
ObsInit ==
  [rounds_executed |-> 0, round_queries |-> 0, rag_calls |-> 0,
   extract_calls |-> 0, report_calls |-> 0, discovered |-> << >>,
   stop |-> "", stop_round |-> 0, inner_cancel |-> FALSE,
   given |-> << >>, first_empty |-> FALSE, failures |-> 0, calls |-> 0]

Think(kind) == [kind |-> kind, text |-> << >>]

Fragment(text) == [kind |-> "report", text |-> text]

\* ---------------------------------------------------------- progress sink

\* What one delivery may do: TRUE it returns, FALSE it raises.
SinkOutcomes ==
  IF request.on_progress /\ World(request.world).faults THEN BOOLEAN
  ELSE {TRUE}

\* Mutant of Deliver: only report fragments reach the sink.
DeliverFragmentsOnly(log, ok, ev) ==
  IF request.on_progress /\ ok /\ ev.kind = "report" THEN Append(log, ev)
  ELSE log

\* `if on_progress: await on_progress(ev)`: the sink's log after a delivery
\* that returned (ok) or raised.
Deliver(log, ok, ev) ==
  IF request.on_progress /\ ok THEN Append(log, ev) ELSE log

\* What a probe check may answer: `check_cancelled and check_cancelled()`.
ProbeAnswers == IF request.check_cancelled THEN BOOLEAN ELSE {FALSE}

Init ==
  /\ request \in Requests
  /\ pc = "entry"
  /\ breadth = request.breadth
  /\ depth = request.depth
  /\ start_time = 0
  /\ now = 0
  /\ total_queries = 0
  /\ all_learnings = << >>
  /\ iteration = 0
  /\ queries = << >>
  /\ i = 0
  /\ iteration_learnings = << >>
  /\ final_report_chunks = << >>
  /\ produced = 0
  /\ final_report = << >>
  /\ events = << >>
  /\ obs = ObsInit

\* ------------------------------------------------------------ deep_research

\* Line 70: breadth = min(breadth, MAX_QUERIES_PER_ITERATION).
ClampBreadth(b) == Min(b, MAX_QUERIES_PER_ITERATION)

\* Mutant of ClampDepth: the clamp is left out.
ClampDepthMissing(d) == d

\* Line 71: depth = min(depth, 5).
ClampDepth(d) == Min(d, MAX_DEPTH)

\* Mutant of InRange: the loop runs over range(1, depth).
InRangeFromOne(it, d) == it + 1 < d

\* Line 84: `for iteration in range(depth)` has a next round.
InRange(it, d) == it < d

\* Line 93: the run is past its time ceiling.
TimedOut == now - start_time > MAX_RESEARCH_TIME

\* Line 100: the query budget is used up.
BudgetSpent == total_queries >= MAX_TOTAL_QUERIES

\* Lines 67-81: clamp the parameters, read the clock, announce the start.
Begin ==
  /\ pc = "entry"
  /\ \E ok \in SinkOutcomes :
       /\ breadth' = ClampBreadth(breadth)
       /\ depth' = ClampDepth(depth)
       /\ start_time' = now
       /\ total_queries' = 0
       /\ events' = Deliver(events, ok, Think("start"))
       /\ all_learnings' = << >>
       /\ pc' = IF ok THEN "round_top" ELSE "sink_raised"
  /\ UNCHANGED <<request, now, iteration, queries, i, iteration_learnings,
                 final_report_chunks, produced, final_report, obs>>

\* The wall clock advances while the run is under way.
Tick ==
  /\ pc \notin {"entry", "done", "sink_raised", "item_raised"}
  /\ now - start_time <= MAX_RESEARCH_TIME
  /\ now' = now + TimeStep
  /\ UNCHANGED <<request, pc, breadth, depth, start_time, total_queries,
                 all_learnings, iteration, queries, i, iteration_learnings,
                 final_report_chunks, produced, final_report, events, obs>>

\* Line 84: range(depth) is exhausted, the loop ends.
LoopExhausted ==
  /\ pc = "round_top"
  /\ ~InRange(iteration, depth)
  /\ pc' = "report"
  /\ obs' = [obs EXCEPT !.stop = "depth", !.stop_round = iteration]
  /\ UNCHANGED <<request, breadth, depth, start_time, now, total_queries,
                 all_learnings, iteration, queries, i, iteration_learnings,
                 final_report_chunks, produced, final_report, events>>

\* A break at the top of a round (lines 86-104): narrate, leave the loop.
StopRound(reason) ==
  /\ \E ok \in SinkOutcomes :
       /\ events' = Deliver(events, ok, Think(reason))
       /\ pc' = IF ok THEN "report" ELSE "sink_raised"
  /\ obs' = [obs EXCEPT !.stop = reason, !.stop_round = iteration]
  /\ UNCHANGED <<request, breadth, depth, start_time, now, total_queries,
                 all_learnings, iteration, queries, i, iteration_learnings,
                 final_report_chunks, produced, final_report>>

\* Lines 85-90: the probe answers true at the top of a round.
RoundCancelled ==
  /\ pc = "round_top"
  /\ InRange(iteration, depth)
  /\ TRUE \in ProbeAnswers
  /\ StopRound("cancelled")

\* Lines 92-97: the probe answered false and the time is up.
RoundTimeout ==
  /\ pc = "round_top"
  /\ InRange(iteration, depth)
  /\ FALSE \in ProbeAnswers
  /\ TimedOut
  /\ StopRound("timeout")

\* Mutant of RoundQueryLimit: the budget is looked at before the clock.
RoundQueryLimitBeforeTimeout ==
  /\ pc = "round_top"
  /\ InRange(iteration, depth)
  /\ FALSE \in ProbeAnswers
  /\ BudgetSpent
  /\ StopRound("limit")

\* Lines 99-104: neither of the above, and the query budget is used up.
RoundQueryLimit ==
  /\ pc = "round_top"
  /\ InRange(iteration, depth)
  /\ FALSE \in ProbeAnswers
  /\ ~TimedOut
  /\ BudgetSpent
  /\ StopRound("limit")

\* ---------------------------------------------------------------- providers

\* What the model behind generate_research_queries may answer: a failure
\* (an exception inside the try of lines 79-136) or a raw candidate list.
GenerateOutcomes ==
  (IF World(request.world).faults THEN {[ok |-> FALSE, queries |-> << >>]}
   ELSE {})
  \cup {[ok |-> TRUE, queries |-> q] :
          q \in SeqsUpTo(World(request.world).candidates,
                         World(request.world).maxraw)}

\* generate_research_queries (providers.py 35-136): the first num_queries
\* raw candidates; none for a provider it does not know or after a failure.
GenerateResearchQueries(resp, num_queries, provider) ==
  IF provider \notin {"openai", "google"} \/ ~resp.ok THEN << >>
  ELSE PySlice(resp.queries, num_queries)

\* What the model behind process_research_results may answer.
ExtractOutcomes ==
  (IF World(request.world).faults THEN {[ok |-> FALSE, learnings |-> << >>]}
   ELSE {})
  \cup {[ok |-> TRUE, learnings |-> l] : l \in ExtractResponses}

\* Mutant of ProcessResearchResults: the model's list is returned whole.
ProcessResearchResultsUnsliced(resp, num_learnings, provider) ==
  IF provider \notin {"openai", "google"} \/ ~resp.ok THEN << >>
  ELSE resp.learnings

\* process_research_results (providers.py 139-260): the first num_learnings
\* raw learnings; none for a provider it does not know or after a failure.
ProcessResearchResults(resp, num_learnings, provider) ==
  IF provider \notin {"openai", "google"} \/ ~resp.ok THEN << >>
  ELSE PySlice(resp.learnings, num_learnings)

\* Mutant of Extend: the items are put in front.
ExtendInFront(list, more) == more \o list

\* Mutant of Extend: the list is replaced by the items.
ExtendReplace(list, more) == more

\* list.extend: the list with the items of more appended.
Extend(list, more) == list \o more

\* ------------------------------------------------------------ a round

\* Mutant of PriorLearnings: the query generation is never given learnings.
PriorLearningsNone(all) == << >>

\* Line 115: `learnings=all_learnings if all_learnings else None`: what the
\* query generation is given.  None is written << >>: the callee reads both
\* the same way (providers.py 56-57).
PriorLearnings(all) == IF all # << >> THEN all ELSE << >>

\* Lines 106-129: announce the round, generate its candidates, and leave the
\* loop when there are none.
StartRound ==
  /\ pc = "round_top"
  /\ InRange(iteration, depth)
  /\ FALSE \in ProbeAnswers
  /\ ~TimedOut
  /\ ~BudgetSpent
  /\ \E ok1 \in SinkOutcomes, ok2 \in SinkOutcomes, resp \in GenerateOutcomes :
       LET log1 == Deliver(events, ok1, Think("iteration"))
           qs == GenerateResearchQueries(resp, breadth, request.provider)
           called ==
             [obs EXCEPT !.rounds_executed = @ + 1,
                         !.round_queries = 0,
                         !.given = Append(@, PriorLearnings(all_learnings)),
                         !.calls = @ + 1,
                         !.failures = IF resp.ok THEN @ ELSE @ + 1,
                         !.first_empty = @ \/ (iteration = 0 /\ qs = << >>)]
       IN  IF ~ok1
           THEN /\ pc' = "sink_raised"
                /\ UNCHANGED <<events, queries, i, iteration_learnings, obs>>
           ELSE IF qs = << >>
           THEN /\ events' = Deliver(log1, ok2, Think("noqueries"))
                /\ pc' = IF ok2 THEN "report" ELSE "sink_raised"
                /\ queries' = qs
                /\ obs' = [called EXCEPT !.stop = "noqueries",
                                         !.stop_round = iteration]
                /\ UNCHANGED <<i, iteration_learnings>>
           ELSE /\ events' = log1
                /\ pc' = "query"
                /\ queries' = qs
                /\ i' = 0
                /\ iteration_learnings' = << >>
                /\ obs' = called
  /\ UNCHANGED <<request, breadth, depth, start_time, now, total_queries,
                 all_learnings, iteration, final_report_chunks, produced,
                 final_report>>

\* Mutant of QueryCancelled: the cancelled round's learnings are dropped.
QueryCancelledDropsRound ==
  /\ pc = "query"
  /\ i < Len(queries)
  /\ TRUE \in ProbeAnswers
  /\ pc' = "round_end"
  /\ iteration_learnings' = << >>
  /\ obs' = [obs EXCEPT !.inner_cancel = TRUE]
  /\ UNCHANGED <<request, breadth, depth, start_time, now, total_queries,
                 all_learnings, iteration, queries, i, final_report_chunks,
                 produced, final_report, events>>

\* Lines 131-133: the probe answers true before a candidate, the inner loop
\* is left.
QueryCancelled ==
  /\ pc = "query"
  /\ i < Len(queries)
  /\ TRUE \in ProbeAnswers
  /\ pc' = "round_end"
  /\ obs' = [obs EXCEPT !.inner_cancel = TRUE]
  /\ UNCHANGED <<request, breadth, depth, start_time, now, total_queries,
                 all_learnings, iteration, queries, i, iteration_learnings,
                 final_report_chunks, produced, final_report, events>>

\* Mutant of SearchQueryMissing: no candidate is taken to be without a
\* search string.
SearchQueryNeverMissing(search_query) == FALSE

\* Line 139: `if not search_query`: the candidate's search string is empty
\* or was not given (the default of line 136).
SearchQueryMissing(search_query) == search_query = ""

\* Mutant of ExceptHandler: the exception is narrated and raised again.
ExceptHandlerReraises(log, learned, ext, ok) ==
  [raised |-> TRUE, log |-> Deliver(log, ok, Think("error")),
   learned |-> learned, rag |-> 1, extract |-> ext, got |-> << >>]

\* The except clause of lines 181-185: narrate the error and go on with the
\* next candidate; what the try block had done so far stays.  ok is the
\* outcome of the delivery of line 184.
ExceptHandler(log, learned, ext, ok) ==
  [raised |-> ~ok, log |-> Deliver(log, ok, Think("error")),
   learned |-> learned, rag |-> 1, extract |-> ext, got |-> << >>]

\* Lines 139-185 for one candidate whose search string is search_query:
\* what the body leaves behind.  r is the retrieval's outcome, ex the
\* extraction's answer, ok1..ok4 the outcomes of the deliveries of lines 145,
\* 156 or 179, 175 and 184.
QueryBody(search_query, r, ex, ok1, ok2, ok3, ok4) ==
  LET log1 == Deliver(events, ok1, Think("searching"))
      Handler(log, learned, ext) == ExceptHandler(log, learned, ext, ok4)
      log2 == Deliver(log1, ok2, Think("found"))
      ql == ProcessResearchResults(ex, NUM_LEARNINGS, request.provider)
      more == Extend(iteration_learnings, ql)
  IN  IF SearchQueryMissing(search_query)
      THEN [raised |-> FALSE, log |-> events, learned |-> iteration_learnings,
            rag |-> 0, extract |-> 0, got |-> << >>]
      ELSE IF ~ok1
      THEN [raised |-> TRUE, log |-> events, learned |-> iteration_learnings,
            rag |-> 0, extract |-> 0, got |-> << >>]
      ELSE IF r = "raise"
      THEN Handler(log1, iteration_learnings, 0)
      ELSE IF r = "none"
      THEN IF ok2
           THEN [raised |-> FALSE, log |-> Deliver(log1, ok2, Think("nocode")),
                 learned |-> iteration_learnings, rag |-> 1, extract |-> 0,
                 got |-> << >>]
           ELSE Handler(log1, iteration_learnings, 0)
      ELSE IF ~ok2
      THEN Handler(log1, iteration_learnings, 0)
      ELSE IF ql = << >>
      THEN [raised |-> FALSE, log |-> log2, learned |-> iteration_learnings,
            rag |-> 1, extract |-> 1, got |-> << >>]
      ELSE IF ok3
      THEN [raised |-> FALSE, log |-> Deliver(log2, ok3, Think("extracted")),
            learned |-> more, rag |-> 1, extract |-> 1, got |-> ql]
      ELSE [Handler(log2, more, 1) EXCEPT !.got = ql]

\* Lines 131-185: one candidate of the round: count it, retrieve, extract.
ProcessQuery ==
  /\ pc = "query"
  /\ i < Len(queries)
  /\ FALSE \in ProbeAnswers
  /\ total_queries' = total_queries + 1
  /\ i' = i + 1
  /\ IF queries[i + 1] = BadItem
     THEN \* query_info.get of line 136 raises AttributeError
          /\ pc' = "item_raised"
          /\ obs' = [obs EXCEPT !.round_queries = @ + 1]
          /\ UNCHANGED <<events, iteration_learnings>>
     ELSE \E r \in World(request.world).retrieval, ex \in ExtractOutcomes,
             ok1 \in SinkOutcomes, ok2 \in SinkOutcomes,
             ok3 \in SinkOutcomes, ok4 \in SinkOutcomes :
            LET b == QueryBody(queries[i + 1], r, ex, ok1, ok2, ok3, ok4)
            IN  /\ pc' = IF b.raised THEN "sink_raised" ELSE "query"
                /\ events' = b.log
                /\ iteration_learnings' = b.learned
                /\ obs' =
                     [obs EXCEPT
                        !.round_queries = @ + 1,
                        !.rag_calls = @ + b.rag,
                        !.extract_calls = @ + b.extract,
                        !.calls = @ + b.rag + b.extract,
                        !.failures =
                          @ + (IF b.rag = 1 /\ r = "raise" THEN 1 ELSE 0)
                            + (IF b.extract = 1 /\ ~ex.ok THEN 1 ELSE 0),
                        !.discovered =
                          IF b.got = << >> THEN @
                          ELSE Append(@, <<iteration, i, b.got>>)]
  /\ UNCHANGED <<request, breadth, depth, start_time, now, all_learnings,
                 iteration, queries, final_report_chunks, produced,
                 final_report>>

\* Lines 187-197: the round is over (its candidates are used up or the inner
\* loop was left): add its learnings to the total and narrate.
RoundComplete ==
  /\ \/ pc = "round_end"
     \/ pc = "query" /\ i >= Len(queries)
  /\ \E ok \in SinkOutcomes :
       /\ IF iteration_learnings # << >>
          THEN /\ all_learnings' = Extend(all_learnings, iteration_learnings)
               /\ events' = Deliver(events, ok, Think("completed"))
          ELSE /\ all_learnings' = all_learnings
               /\ events' = Deliver(events, ok, Think("noinsights"))
       /\ pc' = IF ok THEN "round_top" ELSE "sink_raised"
       /\ iteration' = IF ok THEN iteration + 1 ELSE iteration
  /\ UNCHANGED <<request, breadth, depth, start_time, now, total_queries,
                 queries, i, iteration_learnings, final_report_chunks,
                 produced, final_report, obs>>

\* ------------------------------------------------------------- report phase

\* Mutant of FallbackReport: the question is left out.
FallbackReportWithoutQuestion(query) ==
  <<"# Research Results\n\nUnable to find sufficient information in the codebase.",
    "\n\nPlease try rephrasing your question or ensure the repository has been properly indexed.">>

\* The fallback report of line 230: it quotes the question.
FallbackReport(query) ==
  <<"# Research Results\n\nUnable to find sufficient information in the codebase to answer: ",
    query,
    "\n\nPlease try rephrasing your question or ensure the repository has been properly indexed.">>

\* The message of line 367, e being str(e).
ErrorMessage(e) == <<"Error generating final report: ", e>>

\* The message of line 360.
UnsupportedMessage ==
  <<"Error: Unable to generate report with the specified provider.">>

\* Mutant of ReportStart: the report call is made whatever was learned.
ReportStartAlwaysStreams ==
  /\ pc = "report"
  /\ \E ok \in SinkOutcomes :
       /\ events' = Deliver(events, ok, Think("report_start"))
       /\ pc' = IF ~ok THEN "sink_raised" ELSE "stream"
  /\ UNCHANGED <<request, breadth, depth, start_time, now, total_queries,
                 all_learnings, iteration, queries, i, iteration_learnings,
                 final_report_chunks, produced, final_report, obs>>

\* Lines 199-205: announce the report and choose its source.
ReportStart ==
  /\ pc = "report"
  /\ \E ok \in SinkOutcomes :
       /\ events' = Deliver(events, ok, Think("report_start"))
       /\ pc' = IF ~ok THEN "sink_raised"
                ELSE IF all_learnings # << >> THEN "stream" ELSE "fallback"
  /\ UNCHANGED <<request, breadth, depth, start_time, now, total_queries,
                 all_learnings, iteration, queries, i, iteration_learnings,
                 final_report_chunks, produced, final_report, obs>>

\* Lines 229-242: no learnings: the fallback report, delivered and returned.
Fallback ==
  /\ pc = "fallback"
  /\ final_report' = FallbackReport(request.query)
  /\ \E ok \in SinkOutcomes :
       /\ events' = Deliver(events, ok, Fragment(final_report'))
       /\ pc' = IF ok THEN "done" ELSE "sink_raised"
  /\ UNCHANGED <<request, breadth, depth, start_time, now, total_queries,
                 all_learnings, iteration, queries, i, iteration_learnings,
                 final_report_chunks, produced, obs>>

\* The except clause of write_final_report_streaming (providers.py 365-370)
\* and what follows it in deep_research (lines 215-242): the message is
\* delivered, yielded, appended, and the stream is over.
StreamError(e, ok) ==
  /\ events' = Deliver(events, ok, Fragment(ErrorMessage(e)))
  /\ final_report_chunks' =
       IF ok THEN Append(final_report_chunks, ErrorMessage(e))
       ELSE final_report_chunks
  /\ final_report' = IF ok THEN Join(final_report_chunks') ELSE final_report
  /\ pc' = IF ok THEN "done" ELSE "sink_raised"

\* What a step of the report stream may do: TRUE it goes on, FALSE it raises.
StreamOutcomes == IF World(request.world).faults THEN BOOLEAN ELSE {TRUE}

\* Lines 207-208 and providers.py 282-324, 358-363: the stream is opened.
StreamOpen ==
  /\ pc = "stream"
  /\ obs' = [obs EXCEPT !.report_calls = @ + 1]
  /\ \E opened \in StreamOutcomes, ok \in SinkOutcomes, ok2 \in SinkOutcomes :
       IF ~opened
       THEN \* get_model_config or the client call raises
            /\ StreamError("api", ok)
            /\ UNCHANGED produced
       ELSE IF request.provider \in {"openai", "google"}
       THEN /\ pc' = "streaming"
            /\ final_report_chunks' = << >>
            /\ produced' = 0
            /\ UNCHANGED <<events, final_report>>
       ELSE IF ok2
       THEN /\ events' = Deliver(events, ok2, Fragment(UnsupportedMessage))
            /\ final_report_chunks' = <<UnsupportedMessage>>
            /\ final_report' = Join(final_report_chunks')
            /\ pc' = "done"
            /\ UNCHANGED produced
       ELSE /\ StreamError("sink", ok)
            /\ UNCHANGED produced
  /\ UNCHANGED <<request, breadth, depth, start_time, now, total_queries,
                 all_learnings, iteration, queries, i, iteration_learnings>>

\* providers.py 326-333 (351-356) and line 215: the stream's next raw chunk.
\* A chunk without content is passed over; one with content is delivered to
\* the sink, yielded and appended.
StreamChunk ==
  /\ pc = "streaming"
  /\ produced < World(request.world).chunks
  /\ produced' = produced + 1
  /\ \E content \in {ChunkText(produced'), << >>},
        ok \in SinkOutcomes, ok2 \in SinkOutcomes :
       IF content = << >>
       THEN UNCHANGED <<pc, events, final_report_chunks, final_report>>
       ELSE IF ok
       THEN /\ events' = Deliver(events, ok, Fragment(content))
            /\ final_report_chunks' = Append(final_report_chunks, content)
            /\ UNCHANGED <<pc, final_report>>
       ELSE StreamError("sink", ok2)
  /\ UNCHANGED <<request, breadth, depth, start_time, now, total_queries,
                 all_learnings, iteration, queries, i, iteration_learnings,
                 obs>>

\* The stream raises instead of producing its next chunk.
StreamFail ==
  /\ pc = "streaming"
  /\ FALSE \in StreamOutcomes
  /\ \E ok \in SinkOutcomes : StreamError("api", ok)
  /\ UNCHANGED <<request, breadth, depth, start_time, now, total_queries,
                 all_learnings, iteration, queries, i, iteration_learnings,
                 produced, obs>>

\* The stream ends: line 217 joins the fragments, line 239 returns.
StreamEnd ==
  /\ pc = "streaming"
  /\ final_report' = Join(final_report_chunks)
  /\ pc' = "done"
  /\ UNCHANGED <<request, breadth, depth, start_time, now, total_queries,
                 all_learnings, iteration, queries, i, iteration_learnings,
                 final_report_chunks, produced, events, obs>>

\* The ResearchResult of line 239, once the run has returned.
Result == [learnings |-> all_learnings, final_report |-> final_report]

Returned == pc = "done"

\* An exception has left deep_research: the sink's own (an unguarded
\* `await on_progress(...)`) or the AttributeError of line 136.
Raised == pc \in {"sink_raised", "item_raised"}

Next ==
  \/ Begin
  \/ Tick
  \/ LoopExhausted
  \/ RoundCancelled
  \/ RoundTimeout
  \/ RoundQueryLimit
  \/ StartRound
  \/ QueryCancelled
  \/ ProcessQuery
  \/ RoundComplete
  \/ ReportStart
  \/ Fallback
  \/ StreamOpen
  \/ StreamChunk
  \/ StreamFail
  \/ StreamEnd

Spec == Init /\ [][Next]_vars

\* =================================================================== claims

\* C1: in every reachable state of every run (the query capability returning
\* between 0 and breadth candidates each round) the global query counter
\* total_queries is at most MAX_TOTAL_QUERIES (20).
C1_TotalQueriesWithinCeiling ==
  request.breadth >= 0 => total_queries <= MAX_TOTAL_QUERIES

\* C2: once the elapsed time is past the 300-second ceiling, no step of the
\* run starts a round, counts a query or calls the retrieval.
C2_NothingDispatchedAfterCeiling ==
  [][(pc # "entry" /\ TimedOut) =>
       /\ total_queries' = total_queries
       /\ obs'.rag_calls = obs.rag_calls
       /\ obs'.rounds_executed = obs.rounds_executed]_vars

\* C3 (as claimed): every run that returns has executed at least one round.
C3_AtLeastOneRound == Returned => obs.rounds_executed >= 1

\* The loop was left at the top of round 1 by the cancellation probe or by
\* the time ceiling.
StoppedBeforeFirstRound ==
  obs.stop \in {"cancelled", "timeout"} /\ obs.stop_round = 0

\* C3 (amended): a run that returns has executed at least one round when its
\* depth is at least 1 and neither the cancellation probe nor the time
\* ceiling stopped it at the top of round 1; otherwise it has executed none.
C3_AtLeastOneRoundUnlessStopped ==
  Returned =>
    IF request.depth >= 1 /\ ~StoppedBeforeFirstRound
    THEN obs.rounds_executed >= 1
    ELSE obs.rounds_executed = 0

\* C3 witness: a run of depth 2 that returns after one executed round which
\* got no candidates.
C3_Witness ==
  /\ Returned
  /\ request.depth = 2
  /\ obs.stop = "noqueries"
  /\ obs.rounds_executed = 1

\* C4 (as claimed): the rounds executed by a run that returns never exceed
\* min(depth, 5).
C4_RoundsAtMostMinDepth ==
  Returned => obs.rounds_executed <= Min(request.depth, MAX_DEPTH)

\* C4 (amended): in every state the rounds executed are at most
\* max(0, min(depth, 5)), depth is clamped to at most 5 once the run has
\* begun, and the round at hand has an index below the clamped depth.
C4_RoundsAtMostClampedDepth ==
  /\ obs.rounds_executed <= Max(0, Min(request.depth, MAX_DEPTH))
  /\ pc # "entry" => depth = Min(request.depth, MAX_DEPTH)
  /\ pc \in {"query", "round_end"} => iteration < Min(request.depth, MAX_DEPTH)

\* C4 witness: a run asked for depth 6 returns after exactly 5 rounds.
C4_Witness ==
  /\ Returned
  /\ request.depth = 6
  /\ obs.rounds_executed = MAX_DEPTH
  /\ obs.stop = "depth"

\* C5: in every round the queries issued (increments of total_queries) are
\* at most min(breadth, 5); a round that issues no query is within the bound
\* whatever breadth is.
C5_RoundQueriesAtMostBreadth ==
  obs.round_queries <= Max(0, Min(request.breadth, MAX_QUERIES_PER_ITERATION))

RECURSIVE Flatten(_)
\* The learnings of a sequence of <<round, candidate, list>> entries, in the
\* order of the entries.
Flatten(d) == IF d = << >> THEN << >> ELSE Head(d)[3] \o Flatten(Tail(d))

\* The entries are in discovery order: by round, and by candidate in a round.
InDiscoveryOrder(d) ==
  \A a, b \in DOMAIN d :
    a < b => \/ d[a][1] < d[b][1]
             \/ d[a][1] = d[b][1] /\ d[a][2] < d[b][2]

\* C6: the learnings of the result are the learnings the extraction returned,
\* round by round, candidate by candidate within a round, each list in the
\* order it was returned in, duplicates kept.
C6_LearningsInDiscoveryOrder ==
  /\ InDiscoveryOrder(obs.discovered)
  /\ Returned => Result.learnings = Flatten(obs.discovered)

\* C6 witness: a returned run whose result holds learnings of two rounds and
\* of two candidates of one round, one learning twice.
C6_Witness ==
  /\ Returned
  /\ \E a, b \in DOMAIN obs.discovered :
       obs.discovered[a][1] # obs.discovered[b][1]
  /\ \E a, b \in DOMAIN obs.discovered :
       /\ obs.discovered[a][1] = obs.discovered[b][1]
       /\ obs.discovered[a][2] # obs.discovered[b][2]
  /\ \E a, b \in DOMAIN Result.learnings :
       a # b /\ Result.learnings[a] = Result.learnings[b]
  /\ \E a, b \in DOMAIN Result.learnings :
       Result.learnings[a] # Result.learnings[b]

\* C7: a run that the probe stops at the top of round k, having answered
\* false at every check before, returns the learnings of its k-1 completed
\* rounds and a report that is not empty.
C7_CancelledBeforeRoundK ==
  (Returned /\ obs.stop = "cancelled" /\ ~obs.inner_cancel) =>
    /\ obs.rounds_executed = obs.stop_round
    /\ Result.learnings = Flatten(obs.discovered)
    /\ Result.final_report # << >>

\* The text holds the question as one of its pieces.
Quotes(text, question) == \E k \in DOMAIN text : text[k] = question

\* C8: when round 1 gets an empty candidate list the run stops there: no
\* retrieval and no extraction is ever called, no learning is gathered, and
\* the report of the result is the fallback text, which quotes the question.
C8_EmptyFirstRound ==
  obs.first_empty =>
    /\ obs.rag_calls = 0
    /\ obs.extract_calls = 0
    /\ obs.rounds_executed = 1
    /\ pc \in {"report", "fallback", "done", "sink_raised"}
    /\ all_learnings = << >>
    /\ Returned =>
         /\ Result.learnings = << >>
         /\ Result.final_report = FallbackReport(request.query)
         /\ Quotes(Result.final_report, request.query)
         /\ \A q \in Questions \ {request.query} :
              ~Quotes(Result.final_report, q)

\* C8 witness: a returned run whose first round got an empty list from a
\* query capability that did not fail, the sink having received the fallback.
C8_Witness ==
  /\ Returned
  /\ obs.first_empty
  /\ obs.failures = 0
  /\ request.on_progress
  /\ events[Len(events)] = Fragment(FallbackReport(request.query))

\* Every capability call of the run so far has failed, and there was one.
AllCapabilitiesFail == obs.calls >= 1 /\ obs.failures = obs.calls

\* C9: a run in which every capability call fails raises nothing to its
\* caller and returns no learnings and the fallback report, which quotes
\* the question.
C9_AllCapabilitiesFail ==
  AllCapabilitiesFail =>
    /\ ~Raised
    /\ Returned =>
         /\ Result.learnings = << >>
         /\ Result.final_report = FallbackReport(request.query)
         /\ Quotes(Result.final_report, request.query)

\* C9 without the sink's own exception: the same, of the runs in which no
\* delivery to the progress sink raises.
C9_AllCapabilitiesFailSoundSink ==
  (AllCapabilitiesFail /\ pc # "sink_raised") =>
    /\ ~Raised
    /\ all_learnings = << >>
    /\ Returned =>
         /\ Result.final_report = FallbackReport(request.query)
         /\ Quotes(Result.final_report, request.query)

\* C10: no exception of the progress sink ever leaves deep_research.
C10_SinkNeverAbortsRun == pc # "sink_raised"

\* ---------------------------------------------------------------------------
\* C11  A failure of the report synthesis is caught and turned into text.

\* The report call was made and its except clause (providers.py 365-370) ran:
\* either its message is the last fragment of the buffer, or delivering the
\* message raised out of the generator.
ReportErrorTexts == {ErrorMessage("api"), ErrorMessage("sink")}

ReportFailedAndReturned ==
  /\ obs.report_calls = 1
  /\ Returned
  /\ final_report_chunks # << >>
  /\ final_report_chunks[Len(final_report_chunks)] \in ReportErrorTexts

\* C11: when the report synthesis fails, before its first fragment or after
\* some, the run still returns a result and does not raise: once the report
\* call has been made, the run never ends in an exception.
C11_ReportFailureReturnsResult ==
  obs.report_calls = 1 => ~Raised

\* What does hold of a failed synthesis whose message the sink accepted: the
\* run returns, the message is the tail of the report value, and a sink that
\* is present has received it as its last event.
C11_ReportFailureBecomesText ==
  ReportFailedAndReturned =>
    LET msg == final_report_chunks[Len(final_report_chunks)]
    IN /\ final_report = Join(final_report_chunks)
       /\ Len(final_report) >= Len(msg)
       /\ SubSeq(final_report, Len(final_report) - Len(msg) + 1,
                 Len(final_report)) = msg
       /\ request.on_progress =>
            /\ events # << >>
            /\ events[Len(events)] = Fragment(msg)

\* A synthesis that failed after one fragment had been delivered.
C11_FailedAfterFragment ==
  /\ ReportFailedAndReturned
  /\ Len(final_report_chunks) = 2

\* ---------------------------------------------------------------------------
\* C12  Every run ends in the report phase and returns.

\* C12: whichever stop condition ends the loop, a run whose capability calls
\* all return ends in the report phase and returns a result; it never ends
\* in an exception.  Stated for runs without a progress sink, in which no
\* capability call failed.
C12_RunEndsInReportPhase ==
  (~request.on_progress /\ obs.failures = 0) => ~Raised

\* What does hold: a run that returns left the loop by one of the five stop
\* conditions, the time ceiling among them, and went through the report
\* phase (the report call, or the fallback text).
C12_ReturnedThroughReportPhase ==
  Returned =>
    /\ obs.stop \in {"cancelled", "timeout", "limit", "depth", "noqueries"}
    /\ \/ obs.report_calls = 1
       \/ final_report = Join(<<FallbackReport(request.query)>>)

\* A run stopped by the time ceiling that returned.
C12_TimeoutReturned == Returned /\ obs.stop = "timeout"

\* ---------------------------------------------------------------------------
\* C13  The cumulative learnings are append-only.

IsPrefix(s, t) == Len(s) <= Len(t) /\ SubSeq(t, 1, Len(s)) = s

\* C13: at every step of a run the previous value of all_learnings is a
\* prefix of the new one, also when a later query or a later round fails.
C13_LearningsAppendOnly ==
  [][IsPrefix(all_learnings, all_learnings')]_vars

\* Round 1 contributed learnings, a capability call of round 2 failed, and
\* the run returned with the learnings of round 1 still in front.
C13_Witness ==
  /\ Returned
  /\ Len(obs.given) = 2
  /\ obs.given[2] # << >>
  /\ obs.failures >= 1
  /\ IsPrefix(obs.given[2], all_learnings)

\* ---------------------------------------------------------------------------
\* C14  What a sink is guaranteed to see.

KindCount(log, kind) == Cardinality({k \in DOMAIN log : log[k].kind = kind})

\* C14: in a run with a sink, the sink has received at least one event for
\* every round executed so far (the round's opening event), and every report
\* fragment, the fallback text included, comes after the report-start event.
\* It holds in every state, so also in those of the report phase.
C14_SinkSeesRoundsAndReportStart ==
  request.on_progress =>
    /\ KindCount(events, "iteration") >= obs.rounds_executed
    /\ \A k \in DOMAIN events :
         events[k].kind = "report" =>
           \E j \in 1..(k - 1) : events[j].kind = "report_start"

\* A run with a sink that executed two rounds and returned after a report
\* fragment had been delivered.
C14_Witness ==
  /\ request.on_progress
  /\ Returned
  /\ obs.rounds_executed = 2
  /\ KindCount(events, "report") >= 1

\* ---------------------------------------------------------------------------
\* C15  The order in which the stop conditions are looked at.

\* A step that leaves the top of a round.
LeavesRoundTop == pc = "round_top" /\ pc' # "round_top"

\* The stop that was narrated is the last event a present sink received.
StopNarrated ==
  (request.on_progress /\ pc' = "report") =>
    /\ events' # << >>
    /\ events'[Len(events')] = Think(obs'.stop)

BeforeReportStart(kind) ==
  \E k \in DOMAIN events :
    /\ events[k].kind = kind
    /\ \A j \in 1..k : events[j].kind # "report_start"

ReportStarted == KindCount(events, "report_start") >= 1

\* C16: in a run with a sink, once the report-start event is delivered the
\* sink has before it the event of the exhaustion that ended the loop (depth
\* reached, query ceiling, timeout, cancellation, empty candidate list); a
\* cancellation seen by the per-query check of the last round counts as
\* cancellation.
C16_EveryExhaustionNarrated ==
  (request.on_progress /\ ReportStarted) =>
    /\ BeforeReportStart(obs.stop)
    /\ obs.inner_cancel => BeforeReportStart("cancelled")

\* What does hold: the four stops that are breaks of the loop body have
\* their own event before report-start.
C16_BreaksNarrated ==
  (request.on_progress /\ ReportStarted /\ obs.stop # "depth") =>
    BeforeReportStart(obs.stop)

\* The per-query check saw the cancellation in the last round and the report
\* phase began without any cancellation event.
C16_SilentCancellation ==
  /\ request.on_progress
  /\ ReportStarted
  /\ obs.inner_cancel
  /\ obs.stop = "depth"
  /\ KindCount(events, "cancelled") = 0

\* ---------------------------------------------------------------------------
\* C17  A retrieval without results does not fail the round.

\* A step for one candidate in which the retrieval was called and the
\* extraction was not: the retrieval raised or returned no documents (or the
\* sink refused the event that follows the retrieval).
RetrievalWithoutResults ==
  /\ pc = "query"
  /\ obs'.rag_calls = obs.rag_calls + 1
  /\ obs'.extract_calls = obs.extract_calls

\* C17: after a retrieval that raised or returned no documents the round
\* goes on with the next candidate in order, the learnings of the round's
\* earlier candidates are kept, a present sink has received the candidate's
\* opening event and a no-results event; only an exception of the sink
\* itself ends the run there.  When the round completes, the round's
\* learnings are appended to the cumulative set.
C17_RetrievalFailureNotRoundFailure ==
  [][/\ RetrievalWithoutResults =>
          /\ pc' = "sink_raised" => FALSE \in SinkOutcomes
          /\ pc' # "sink_raised" =>
               /\ pc' = "query"
               /\ i' = i + 1
               /\ queries' = queries
               /\ iteration' = iteration
               /\ iteration_learnings' = iteration_learnings
               /\ all_learnings' = all_learnings
               /\ request.on_progress =>
                    /\ Len(events') = Len(events) + 2
                    /\ events'[Len(events')].kind \in {"nocode", "error"}
     /\ (pc \in {"query", "round_end"} /\ pc' = "round_top") =>
          all_learnings' = all_learnings \o iteration_learnings]_vars

\* Breadth 2, depth 1: the first candidate yielded learnings, the retrieval of
\* the second gave nothing, and the run returned with the first's learnings.
C17_Witness ==
  /\ Returned
  /\ obs.rounds_executed = 1
  /\ obs.rag_calls = 2
  /\ obs.extract_calls = 1
  /\ Len(obs.discovered) = 1
  /\ obs.discovered[1][2] = 0
  /\ all_learnings = obs.discovered[1][3]

\* ---------------------------------------------------------------------------
\* C18  The streamed report: buffer, sink and final value.

\* The texts of the report fragments a sink has received, in order.
ReportTexts(log) ==
  LET sel == SelectSeq(log, LAMBDA e : e.kind = "report")
  IN  [k \in 1..Len(sel) |-> sel[k].text]

RECURSIVE TextUpTo(_, _)
\* The first n chunks, one after the other.
TextUpTo(chunks, n) ==
  IF n = 0 THEN << >> ELSE TextUpTo(chunks, n - 1) \o chunks[n]

\* C18: once the report call is made, the fragments a present sink has
\* received are, in every state, exactly the fragments in the buffer, in the
\* same order, so each fragment is with the sink before the next one is
\* produced; and the report a run returns is the buffer's fragments
\* concatenated in arrival order.
C18_ReportIsFragmentsInOrder ==
  obs.report_calls = 1 =>
    /\ request.on_progress => ReportTexts(events) = final_report_chunks
    /\ Returned =>
         final_report = TextUpTo(final_report_chunks, Len(final_report_chunks))

\* A run with a sink that returned a report streamed in two fragments.
C18_Witness ==
  /\ request.on_progress
  /\ Returned
  /\ obs.report_calls = 1
  /\ final_report_chunks = <<ChunkText(1), ChunkText(2)>>
  /\ final_report = ChunkText(1) \o ChunkText(2)

\* ---------------------------------------------------------------------------
\* C19  One report call when something was learned, none otherwise.

\* C19: the report capability is never called twice and never with nothing
\* learned; a run that returns has called it exactly once if it learned
\* something and not at all if it learned nothing, and in that case its
\* report is the fallback text, which a present sink has received exactly
\* once, as its only report fragment.
C19_OneReportCallOrFallback ==
  /\ obs.report_calls <= 1
  /\ obs.report_calls = 1 => all_learnings # << >>
  /\ Returned =>
       IF all_learnings # << >>
       THEN obs.report_calls = 1
       ELSE /\ obs.report_calls = 0
            /\ final_report = FallbackReport(request.query)
            /\ request.on_progress =>
                 ReportTexts(events) = <<FallbackReport(request.query)>>

\* A run with a sink went through a whole round, learned nothing, and
\* returned the fallback text.
C19_Witness ==
  /\ request.on_progress
  /\ Returned
  /\ obs.stop = "depth"
  /\ obs.rag_calls >= 1
  /\ all_learnings = << >>
  /\ KindCount(events, "report") = 1

\* ---------------------------------------------------------------------------
\* C20  What the query generation is told of earlier rounds.

\* The learnings discovered in the rounds before round r, in order.
LearnedBefore(r) ==
  Flatten(SelectSeq(obs.discovered, LAMBDA e : e[1] + 1 < r))

\* C20: the query generation of round 1 is given no learnings, and that of
\* every round r >= 2 is given all the learnings of rounds 1 to r-1, in
\* order, not those of round r-1 alone.
C20_GenerationGetsAllPriorLearnings ==
  \A r \in DOMAIN obs.given :
    /\ r = 1 => obs.given[r] = << >>
    /\ obs.given[r] = LearnedBefore(r)

\* Rounds 1 and 2 both learned something, and the query generation of round
\* 3 was given more than the learnings of round 2.
C20_Witness ==
  /\ Len(obs.given) = 3
  /\ obs.given[2] # << >>
  /\ Len(obs.given[3]) > Len(obs.given[2])
  /\ obs.given[3] # Flatten(SelectSeq(obs.discovered, LAMBDA e : e[1] = 1))

\* ---------------------------------------------------------------------------
\* C21  A candidate without a search string is counted and passed over.

\* A step that takes up a candidate whose search string is empty.
EmptyCandidateTaken ==
  /\ pc = "query"
  /\ i < Len(queries)
  /\ queries[i + 1] = ""
  /\ i' = i + 1

\* C21: a candidate whose search string is empty raises the global query
\* counter by one and does nothing else: no retrieval call, no extraction
\* call, no progress event, no learning; the round goes on with the next
\* candidate.
C21_EmptyCandidateCountedAndSkipped ==
  [][EmptyCandidateTaken =>
       /\ total_queries' = total_queries + 1
       /\ events' = events
       /\ obs'.rag_calls = obs.rag_calls
       /\ obs'.extract_calls = obs.extract_calls
       /\ obs'.calls = obs.calls
       /\ iteration_learnings' = iteration_learnings
       /\ all_learnings' = all_learnings
       /\ queries' = queries
       /\ pc' = "query"]_vars

\* Breadth 2, with a sink: the first candidate had no search string, the
\* second was searched for; both were counted, one retrieval was made and one
\* search was announced.
C21_Witness ==
  /\ Len(queries) = 2
  /\ queries[1] = ""
  /\ queries[2] = "kw"
  /\ i = 2
  /\ total_queries = 2
  /\ obs.rag_calls = 1
  /\ request.on_progress
  /\ KindCount(events, "searching") = 1

\* ---------------------------------------------------------------------------
\* C22  Cancellation seen by the per-query check.

\* C22: when the probe answers true before candidate i of a round, that step
\* counts nothing, calls no capability, delivers nothing and keeps the
\* learnings of the candidates before i; from then on the round takes up no
\* further candidate (the candidates counted in the round are those before
\* i), and the only thing it still does is its completion, which appends the
\* kept learnings to the cumulative set.  The probe is consulted between
\* capability calls only: the step that sees the cancellation leaves every
\* call count and every recorded result as it was.
C22_PerQueryCancellation ==
  [][/\ (pc = "query" /\ pc' = "round_end") =>
          /\ i < Len(queries)
          /\ request.check_cancelled
          /\ total_queries' = total_queries
          /\ events' = events
          /\ iteration_learnings' = iteration_learnings
          /\ all_learnings' = all_learnings
          /\ obs'.round_queries = obs.round_queries
          /\ obs'.rag_calls = obs.rag_calls
          /\ obs'.extract_calls = obs.extract_calls
          /\ obs'.calls = obs.calls
          /\ obs'.discovered = obs.discovered
     /\ pc = "round_end" =>
          /\ obs.round_queries = i
          /\ i < Len(queries)
          /\ total_queries' = total_queries
          /\ i' = i
          /\ obs' = obs
          /\ pc' \in {"round_end", "round_top", "sink_raised"}
          /\ pc' # "round_end" =>
               all_learnings' = all_learnings \o iteration_learnings]_vars

\* Breadth 2, depth 1: the first candidate yielded learnings, the probe
\* answered true before the second, and the round completed with the first
\* candidate's learnings in the cumulative set and one query counted.
C22_Witness ==
  /\ pc = "round_top"
  /\ obs.inner_cancel
  /\ obs.rounds_executed = 1
  /\ Len(queries) = 2
  /\ i = 1
  /\ total_queries = 1
  /\ obs.rag_calls = 1
  /\ obs.extract_calls = 1
  /\ all_learnings # << >>
  /\ all_learnings = Flatten(obs.discovered)

\* ---------------------------------------------------------------------------
\* C23  At most three learnings per counted query.

\* C23: in every reachable state the cumulative learnings and the learnings
\* in the round-local buffer together number at most 3 times the global
\* query counter.
C23_LearningsAtMostThreePerQuery ==
  Len(all_learnings) + Len(iteration_learnings)
    <= NUM_LEARNINGS * total_queries

\* C23 as the code has it: the cumulative learnings number at most 3 times
\* the query counter in every state, and so do the cumulative learnings
\* together with the round-local buffer while the round's candidates are
\* being worked on, that is until the round's completion has added the
\* buffer to the cumulative set; the buffer keeps its content from then
\* until the next round's candidate loop empties it.
C23_LearningsWithinThreePerQuery ==
  /\ Len(all_learnings) <= NUM_LEARNINGS * total_queries
  /\ pc \in {"query", "round_end"} =>
       Len(all_learnings) + Len(iteration_learnings)
         <= NUM_LEARNINGS * total_queries

\* Two candidates of one round each contributed three learnings, cut from
\* the four the model returned: the bound is met exactly.
C23_Witness ==
  /\ pc = "query"
  /\ total_queries = 2
  /\ obs.extract_calls = 2
  /\ Len(iteration_learnings) = 2 * NUM_LEARNINGS
  /\ Len(all_learnings) + Len(iteration_learnings)
       = NUM_LEARNINGS * total_queries

====
